---- MODULE Spec2Model ----
(***************************************************************************)
(* Binomial-lattice pricing routines of Derivatives-Pricing-Models:        *)
(* stock_lattice / short_rate, binomial_tree, elementary_prices,           *)
(* zcb_price_forward, term_structure, swap_price, swaption_price and the   *)
(* BDT calibration cells.                                                  *)
(*                                                                         *)
(* Numbers.  A Python / numpy float is modelled by an exact rational       *)
(* <<num, den>> in lowest terms with den > 0, extended by the three        *)
(* non-finite IEEE values: NaN = <<0,0>>, +inf = <<1,0>>, -inf = <<-1,0>>. *)
(* Rounding is not modelled.                                               *)
(***************************************************************************)
EXTENDS Integers, Sequences, FiniteSets, TLC

VARIABLES entry, opt, lat, ep, ts, sw, so, cal

vars == <<entry, opt, lat, ep, ts, sw, so, cal>>

(* ------------------------------------------------------------------ *)
(* Bounds of the model                                                  *)
(* ------------------------------------------------------------------ *)
MaxN == 2
MaxPeriods == 2
MaxEvals == 2

(* ------------------------------------------------------------------ *)
(* Float arithmetic                                                     *)
(* ------------------------------------------------------------------ *)
Abs(x) == IF x < 0 THEN -x ELSE x

Sgn(x) == IF x < 0 THEN -1 ELSE IF x > 0 THEN 1 ELSE 0

RECURSIVE GCD(_, _)
GCD(a, b) == IF b = 0 THEN a ELSE GCD(b, a % b)

Norm(n, d) ==
  IF d = 0 THEN <<Sgn(n), 0>>
  ELSE LET g == GCD(Abs(n), Abs(d))
           s == IF d < 0 THEN -1 ELSE 1
       IN  <<(s * n) \div g, (s * d) \div g>>

R(n, d) == Norm(n, d)

Zero == <<0, 1>>
One == <<1, 1>>
Two == <<2, 1>>
Half == <<1, 2>>
Three == <<3, 1>>
Four == <<4, 1>>
Hundred == <<100, 1>>
NaN == <<0, 0>>
PInf == <<1, 0>>
NInf == <<-1, 0>>

\* the element of a singleton set; an operator written Once({e(a) : a \in {x}})
\* computes its argument x a single time, however often e uses it
Once(S) == CHOOSE r \in S : TRUE

IsFinite(x) == x[2] # 0
IsNaN(x) == x = NaN

RNeg(x) == Once({<<-a[1], a[2]>> : a \in {x}})

RAdd(x, y) == Once({
  IF IsFinite(a) /\ IsFinite(b)
  THEN Once({Norm(a[1] * (b[2] \div g) + b[1] * (a[2] \div g), (a[2] \div g) * b[2])
             : g \in {GCD(a[2], b[2])}})
  ELSE IF IsNaN(a) \/ IsNaN(b) THEN NaN
  ELSE IF ~IsFinite(a) /\ ~IsFinite(b) THEN (IF a = b THEN a ELSE NaN)
  ELSE IF IsFinite(a) THEN b ELSE a
  : a \in {x}, b \in {y}})

RSub(a, b) == RAdd(a, RNeg(b))

RMul(x, y) == Once({
  IF IsFinite(a) /\ IsFinite(b)
  THEN Once({Norm((a[1] \div g1) * (b[1] \div g2), (a[2] \div g2) * (b[2] \div g1))
             : g1 \in {GCD(Abs(a[1]), b[2])}, g2 \in {GCD(Abs(b[1]), a[2])}})
  ELSE IF IsNaN(a) \/ IsNaN(b) THEN NaN
  ELSE IF a[1] = 0 \/ b[1] = 0 THEN NaN
  ELSE <<Sgn(a[1]) * Sgn(b[1]), 0>>
  : a \in {x}, b \in {y}})

\* numpy true division: a zero divisor gives inf or nan (with a warning), no exception
RDiv(x, y) == Once({
  IF IsNaN(a) \/ IsNaN(b) THEN NaN
  ELSE IF IsFinite(b) THEN
         IF b[1] = 0 THEN (IF IsFinite(a) THEN <<Sgn(a[1]), 0>> ELSE a)
         ELSE IF IsFinite(a) THEN RMul(a, Norm(b[2], b[1]))
         ELSE <<Sgn(a[1]) * Sgn(b[1]), 0>>
  ELSE IF IsFinite(a) THEN Zero ELSE NaN
  : a \in {x}, b \in {y}})

\* a < b ; every comparison with NaN is false
RLt(x, y) == \E a \in {x}, b \in {y} :
  IF IsNaN(a) \/ IsNaN(b) THEN FALSE
  ELSE IF ~IsFinite(a) /\ ~IsFinite(b) THEN a[1] < b[1]
  ELSE IF ~IsFinite(a) \/ ~IsFinite(b) THEN a[1] * b[2] < b[1] * a[2]
  ELSE \E g \in {GCD(a[2], b[2])} :
         a[1] * (b[2] \div g) < b[1] * (a[2] \div g)

RLe(x, y) == \E a \in {x}, b \in {y} :
  IF IsNaN(a) \/ IsNaN(b) THEN FALSE ELSE ~RLt(b, a)

\* Python's max(a, b) and max(a, b, c): keep the first, replace it when a later one is greater
PyMax2(x, y) == Once({IF RLt(a, b) THEN b ELSE a : a \in {x}, b \in {y}})

PyMax3(a, b, c) == PyMax2(PyMax2(a, b), c)

RECURSIVE RPow(_, _)
RPow(x, k) == IF k = 0 THEN One ELSE RMul(x, RPow(x, k - 1))

(* ------------------------------------------------------------------ *)
(* Arrays: np.zeros((m, m)) is a function [0..m-1 -> [0..m-1 -> float]] *)
(* ------------------------------------------------------------------ *)
\* mutant of Zeros2: the array is allocated filled with ones
Zeros2_Ones(m) == [i \in 0..(m - 1) |-> [j \in 0..(m - 1) |-> One]]

Zeros2(m) == [i \in 0..(m - 1) |-> [j \in 0..(m - 1) |-> Zero]]

Zeros1(m) == [i \in 0..(m - 1) |-> Zero]

\* the reads among `idx` (pairs <<i, j>>) of array `name` that lie above the diagonal
UpperOf(name, idx) == {<<name, p[1], p[2]>> : p \in {q \in idx : q[2] > q[1]}}

(* ------------------------------------------------------------------ *)
(* stock_lattice / short_rate                                           *)
(* ------------------------------------------------------------------ *)
\* mutant of LatticeRow: an up-move adds u instead of multiplying by it
LatticeRow_Additive(arr, i, u, d) ==
  [arr EXCEPT ![i] = [j \in DOMAIN arr[i] |->
      IF j = 0 THEN RMul(arr[i - 1][0], d)
      ELSE IF j <= i THEN RAdd(arr[i - 1][j - 1], u)
      ELSE arr[i][j]]]

\* mutant of LatticeRow: the up and down factors are exchanged
LatticeRow_Swapped(arr, i, u, d) ==
  [arr EXCEPT ![i] = [j \in DOMAIN arr[i] |->
      IF j = 0 THEN RMul(arr[i - 1][0], u)
      ELSE IF j <= i THEN RMul(arr[i - 1][j - 1], d)
      ELSE arr[i][j]]]

\* one pass of the outer loop: row i from row i-1
LatticeRow(arr, i, u, d) ==
  [arr EXCEPT ![i] = [j \in DOMAIN arr[i] |->
      IF j = 0 THEN RMul(arr[i - 1][0], d)
      ELSE IF j <= i THEN RMul(arr[i - 1][j - 1], u)
      ELSE arr[i][j]]]

LatticeRowReads(i) == {<<i - 1, 0>>} \cup {<<i - 1, j - 1>> : j \in 1..i}

RECURSIVE LatticeLoop(_, _, _, _, _)
LatticeLoop(arr, i, n, u, d) ==
  IF i > n THEN arr ELSE LatticeLoop(LatticeRow(arr, i, u, d), i + 1, n, u, d)

\* mutant of short_rate: n = -1 yields an empty lattice instead of failing
short_rate_EmptyAccepted(r_0, n, u, d) ==
  IF n + 1 < 0 THEN [err |-> "ValueError", arr |-> <<>>, upper |-> {}]
  ELSE IF n + 1 = 0 THEN [err |-> "none", arr |-> <<>>, upper |-> {}]
  ELSE [err |-> "none",
        arr |-> LatticeLoop([Zeros2(n + 1) EXCEPT ![0][0] = r_0], 1, n, u, d),
        upper |-> UNION {UpperOf("lattice", LatticeRowReads(i)) : i \in 1..n}]

\* [err, arr, upper]: np.zeros refuses a negative dimension (ValueError); on the
\* empty array of n = -1 the store rate[0,0] = r_0 is out of bounds (IndexError)
short_rate(r_0, n, u, d) ==
  IF n + 1 < 0 THEN [err |-> "ValueError", arr |-> <<>>, upper |-> {}]
  ELSE IF n + 1 = 0 THEN [err |-> "IndexError", arr |-> <<>>, upper |-> {}]
  ELSE [err |-> "none",
        arr |-> LatticeLoop([Zeros2(n + 1) EXCEPT ![0][0] = r_0], 1, n, u, d),
        upper |-> UNION {UpperOf("lattice", LatticeRowReads(i)) : i \in 1..n}]

stock_lattice(S_0, n, u, d) == short_rate(S_0, n, u, d)

(* ------------------------------------------------------------------ *)
(* binomial_tree(n, r_f, S_0, K, u, d, PutCall, Type)                   *)
(* np: the numeric arguments are numpy.float64 scalars (their division  *)
(* by zero gives inf/nan) rather than Python floats (it raises)         *)
(* ------------------------------------------------------------------ *)
Finished(st) == st.pc \in {"done", "raised"}

Raise(st, e) == [st EXCEPT !.pc = "raised", !.err = e]

BT_Init(n, r_f, S_0, K, u, d, PutCall, Type, np) ==
  [pc |-> "q", n |-> n, r_f |-> r_f, S_0 |-> S_0, K |-> K, u |-> u, d |-> d,
   PutCall |-> PutCall, Type |-> Type, np |-> np,
   q |-> Zero, stock_price |-> <<>>, option_price |-> <<>>,
   i |-> 0, j |-> 0, upper |-> {}, err |-> "none", ret |-> Zero]

\* q = ((1.0 + r_f) - d)/(u-d)
RiskNeutralQ(r_f, u, d) == RDiv(RSub(RAdd(One, r_f), d), RSub(u, d))

BT_q(st) ==
  IF RSub(st.u, st.d) = Zero /\ ~st.np THEN Raise(st, "ZeroDivisionError")
  ELSE [st EXCEPT !.q = RiskNeutralQ(st.r_f, st.u, st.d), !.pc = "lattice"]

BT_lattice(st) ==
  LET L == stock_lattice(st.S_0, st.n, st.u, st.d)
  IN  IF L.err # "none" THEN Raise(st, L.err)
      ELSE [st EXCEPT !.stock_price = L.arr,
                      !.option_price = Zeros2(st.n + 1),
                      !.upper = @ \cup L.upper,
                      !.i = 0,
                      !.pc = "terminal"]

\* where the backward pass starts, or "return" when its loops have no iteration
BT_afterTerminal(st) ==
  IF st.Type \in {"E", "A"} /\ st.n - 1 >= 0
  THEN [st EXCEPT !.pc = "backward", !.i = st.n - 1, !.j = 0]
  ELSE [st EXCEPT !.pc = "return"]

\* mutant of TerminalPayoff: the payoff is not floored at 0
TerminalPayoff_NoFloor(PutCall, S, K, old) ==
  IF PutCall = "Call" THEN RSub(S, K)
  ELSE IF PutCall = "Put" THEN RSub(K, S)
  ELSE old

\* the terminal payoff stored at option_price[n,i]
TerminalPayoff(PutCall, S, K, old) ==
  IF PutCall = "Call" THEN PyMax2(Zero, RSub(S, K))
  ELSE IF PutCall = "Put" THEN PyMax2(Zero, RSub(K, S))
  ELSE old

BT_terminal(st) ==
  LET n == st.n
      i == st.i
      rd == IF st.PutCall \in {"Call", "Put"} THEN {<<n, i>>} ELSE {}
      st1 == [st EXCEPT
                !.option_price[n][i] =
                   TerminalPayoff(st.PutCall, st.stock_price[n][i], st.K, @),
                !.upper = @ \cup UpperOf("stock_price", rd),
                !.i = i + 1]
  IN  IF i + 1 <= n THEN st1 ELSE BT_afterTerminal(st1)

\* mutant of Continuation: the expectation is not discounted
Continuation_NoDiscount(r_f, q, up, down) ==
  RAdd(RMul(q, up), RMul(RSub(One, q), down))

\* mutant of Continuation: the weights q and 1-q are exchanged
Continuation_SwappedWeights(r_f, q, up, down) ==
  RMul(RDiv(One, RAdd(One, r_f)), RAdd(RMul(q, down), RMul(RSub(One, q), up)))

\* (1/(1+r_f))*(q*option_price[i+1,j+1]+(1-q)*option_price[i+1,j])
Continuation(r_f, q, up, down) ==
  RMul(RDiv(One, RAdd(One, r_f)), RAdd(RMul(q, up), RMul(RSub(One, q), down)))

\* mutant of NodeValue: the American node keeps the exercise value only
NodeValue_ExerciseOnly(Type, PutCall, S, K, cont, old) ==
  IF Type = "E" THEN cont
  ELSE IF PutCall = "Put" THEN PyMax2(Zero, RSub(K, S))
  ELSE IF PutCall = "Call" THEN PyMax2(Zero, RSub(S, K))
  ELSE old

\* mutant of NodeValue: the American node keeps the continuation value only
NodeValue_ContinuationOnly(Type, PutCall, S, K, cont, old) ==
  IF Type = "E" THEN cont
  ELSE IF PutCall \in {"Put", "Call"} THEN cont
  ELSE old

\* the value stored at a non-terminal node
NodeValue(Type, PutCall, S, K, cont, old) ==
  IF Type = "E" THEN cont
  ELSE IF PutCall = "Put" THEN PyMax3(Zero, RSub(K, S), cont)
  ELSE IF PutCall = "Call" THEN PyMax3(Zero, RSub(S, K), cont)
  ELSE old

\* mutant of BT_nextNode: only column 0 of each row is visited
BT_nextNode_FirstColumnOnly(st) ==
  IF st.i > 0 THEN [st EXCEPT !.i = st.i - 1, !.j = 0]
  ELSE [st EXCEPT !.pc = "return"]

BT_nextNode(st) ==
  IF st.j < st.i THEN [st EXCEPT !.j = st.j + 1]
  ELSE IF st.i > 0 THEN [st EXCEPT !.i = st.i - 1, !.j = 0]
  ELSE [st EXCEPT !.pc = "return"]

BT_backward(st) ==
  LET i == st.i
      j == st.j
      evaluates == st.Type = "E" \/ st.PutCall \in {"Put", "Call"}
      rdO == IF evaluates THEN {<<i + 1, j + 1>>, <<i + 1, j>>} ELSE {}
      rdS == IF st.Type = "A" /\ evaluates THEN {<<i, j>>} ELSE {}
      cont == Continuation(st.r_f, st.q,
                           st.option_price[i + 1][j + 1], st.option_price[i + 1][j])
  IN  IF evaluates /\ ~st.np /\ RAdd(One, st.r_f) = Zero
      THEN Raise(st, "ZeroDivisionError")
      ELSE BT_nextNode(
             [st EXCEPT
                !.option_price[i][j] =
                   NodeValue(st.Type, st.PutCall, st.stock_price[i][j], st.K, cont, @),
                !.upper = @ \cup UpperOf("option_price", rdO)
                            \cup UpperOf("stock_price", rdS)])

BT_return(st) == [st EXCEPT !.ret = st.option_price[0][0], !.pc = "done"]

BT_Step(st) ==
  CASE st.pc = "q" -> BT_q(st)
    [] st.pc = "lattice" -> BT_lattice(st)
    [] st.pc = "terminal" -> BT_terminal(st)
    [] st.pc = "backward" -> BT_backward(st)
    [] st.pc = "return" -> BT_return(st)
    [] OTHER -> st

RECURSIVE BT_Run(_)
BT_Run(st) == Once({IF Finished(f) THEN f ELSE BT_Run(BT_Step(f)) : f \in {st}})

\* the call as a function of its arguments: the frame it ends in
binomial_tree(n, r_f, S_0, K, u, d, PutCall, Type, np) ==
  BT_Run(BT_Init(n, r_f, S_0, K, u, d, PutCall, Type, np))

(* ------------------------------------------------------------------ *)
(* elementary_prices(r_0, n, u, d)   (forward equations)                *)
(* upper: element reads above the diagonal; bulk: entries above the     *)
(* diagonal read by a whole-array operation                             *)
(* ------------------------------------------------------------------ *)
\* arr/100.0 on a whole array
Scale100(arr) == [i \in DOMAIN arr |-> [j \in DOMAIN arr[i] |-> RDiv(arr[i][j], Hundred)]]

\* every index pair of a square array, as read by a whole-array operation
AllIndices(arr) == {<<i, j>> : i \in DOMAIN arr, j \in DOMAIN arr}

\* x/(2*(1.0 + s))
\* mutant of HalfDiscount: the value is compounded instead of discounted
HalfDiscount_Compound(x, s) == RDiv(RMul(x, RAdd(One, s)), Two)

\* mutant of HalfDiscount: the probability 1/2 is left out
HalfDiscount_NoHalf(x, s) == RDiv(x, RAdd(One, s))

HalfDiscount(x, s) == RDiv(x, RMul(Two, RAdd(One, s)))

EP_Init(r_0, n, u, d) ==
  [pc |-> "lattice", r_0 |-> r_0, n |-> n, u |-> u, d |-> d,
   rate |-> <<>>, s |-> <<>>, e_prices |-> <<>>, i |-> 0,
   upper |-> {}, bulk |-> {}, err |-> "none"]

EP_lattice(st) ==
  LET L == short_rate(st.r_0, st.n, st.u, st.d)
  IN  IF L.err # "none" THEN Raise(st, L.err)
      ELSE [st EXCEPT !.rate = L.arr,
                      !.s = Scale100(L.arr),
                      !.e_prices = [Zeros2(st.n + 1) EXCEPT ![0][0] = One],
                      !.upper = @ \cup L.upper,
                      !.bulk = @ \cup UpperOf("rate", AllIndices(L.arr)),
                      !.i = 1,
                      !.pc = IF st.n >= 1 THEN "first" ELSE "return"]

\* mutant of EP_first: the first loop passes over column 0 without assigning it
EP_first_NoAssignment(st) ==
  [st EXCEPT !.i = IF st.i + 1 <= st.n THEN st.i + 1 ELSE 1,
             !.pc = IF st.i + 1 <= st.n THEN "first" ELSE "main"]

\* the first loop: column 0 only
EP_first(st) ==
  LET i == st.i
  IN  [st EXCEPT !.e_prices[i][0] = HalfDiscount(st.e_prices[i - 1][0], st.s[i - 1][0]),
                 !.upper = @ \cup UpperOf("e_prices", {<<i - 1, 0>>})
                             \cup UpperOf("s", {<<i - 1, 0>>}),
                 !.i = IF i + 1 <= st.n THEN i + 1 ELSE 1,
                 !.pc = IF i + 1 <= st.n THEN "first" ELSE "main"]

\* mutant of ForwardRow: an interior node takes the up-move term only
ForwardRow_OneTerm(e, s, i) ==
  [j \in DOMAIN e[i] |->
      IF j = 0 THEN HalfDiscount(e[i - 1][0], s[i - 1][0])
      ELSE IF j <= i THEN HalfDiscount(e[i - 1][j - 1], s[i - 1][j - 1])
      ELSE e[i][j]]

\* row i of the main loop, from row i-1
ForwardRow(e, s, i) ==
  [j \in DOMAIN e[i] |->
      IF j = 0 THEN HalfDiscount(e[i - 1][0], s[i - 1][0])
      ELSE IF j < i THEN RAdd(HalfDiscount(e[i - 1][j - 1], s[i - 1][j - 1]),
                              HalfDiscount(e[i - 1][j], s[i - 1][j]))
      ELSE IF j = i THEN HalfDiscount(e[i - 1][j - 1], s[i - 1][j - 1])
      ELSE e[i][j]]

ForwardRowReads(i) ==
  {<<i - 1, 0>>} \cup {<<i - 1, j - 1>> : j \in 1..i} \cup {<<i - 1, j>> : j \in 1..(i - 1)}

\* mutant of EP_main: the main loop stops before the row of the horizon n
EP_main_StopsBeforeHorizon(st) ==
  LET i == st.i
  IN  [st EXCEPT !.e_prices[i] = IF i = st.n THEN @ ELSE ForwardRow(st.e_prices, st.s, i),
                 !.i = i + 1,
                 !.pc = IF i + 1 <= st.n THEN "main" ELSE "return"]

EP_main(st) ==
  LET i == st.i
  IN  [st EXCEPT !.e_prices[i] = ForwardRow(st.e_prices, st.s, i),
                 !.upper = @ \cup UpperOf("e_prices", ForwardRowReads(i))
                             \cup UpperOf("s", ForwardRowReads(i)),
                 !.i = i + 1,
                 !.pc = IF i + 1 <= st.n THEN "main" ELSE "return"]

EP_return(st) == [st EXCEPT !.pc = "done"]

EP_Step(st) ==
  CASE st.pc = "lattice" -> EP_lattice(st)
    [] st.pc = "first" -> EP_first(st)
    [] st.pc = "main" -> EP_main(st)
    [] st.pc = "return" -> EP_return(st)
    [] OTHER -> st

RECURSIVE EP_Run(_)
EP_Run(st) == Once({IF Finished(f) THEN f ELSE EP_Run(EP_Step(f)) : f \in {st}})

elementary_prices(r_0, n, u, d) == EP_Run(EP_Init(r_0, n, u, d))

(* ------------------------------------------------------------------ *)
(* zcb_price_forward(k, r_0, u, d, fv)                                  *)
(* ------------------------------------------------------------------ *)
RECURSIVE SumTo(_, _)
SumTo(row, m) == IF m < 0 THEN Zero ELSE RAdd(SumTo(row, m - 1), row[m])

\* np.sum(arr, axis=1)[k]: the sum of the whole row k
RowSum(arr, k) == SumTo(arr[k], Cardinality(DOMAIN arr[k]) - 1)

\* [err, price, upper, bulk]; np.sum(e_prices, axis=1) adds up every row in full
zcb_price_forward(k, r_0, u, d, fv) ==
  LET E == elementary_prices(r_0, k, u, d)
  IN  IF E.pc = "raised"
      THEN [err |-> E.err, price |-> Zero, upper |-> {}, bulk |-> {}]
      ELSE [err |-> "none",
            price |-> RMul(fv, RowSum(E.e_prices, k)),
            upper |-> E.upper,
            bulk |-> E.bulk \cup UpperOf("e_prices", AllIndices(E.e_prices))]

(* ------------------------------------------------------------------ *)
(* zcb_price(r_0, n, u, d, fv)   (backward induction)                   *)
(* ------------------------------------------------------------------ *)
\* zcb[i,j] = (1/(1+rate[i,j]/100))*(q*zcb[i+1,j+1]+(1-q)*zcb[i+1,j]), q = 0.5
ZcbRow(zcb, rate, i) ==
  [j \in DOMAIN zcb[i] |->
      IF j <= i
      THEN RMul(RDiv(One, RAdd(One, RDiv(rate[i][j], Hundred))),
                RAdd(RMul(Half, zcb[i + 1][j + 1]), RMul(RSub(One, Half), zcb[i + 1][j])))
      ELSE zcb[i][j]]

RECURSIVE ZcbLoop(_, _, _)
ZcbLoop(zcb, rate, i) ==
  IF i < 0 THEN zcb ELSE ZcbLoop([zcb EXCEPT ![i] = ZcbRow(zcb, rate, i)], rate, i - 1)

\* the lattice of bond values over the rate lattice `rate` (in percent)
zcb_backward(rate, n, fv) ==
  ZcbLoop([Zeros2(n + 1) EXCEPT ![n] = [j \in 0..n |-> fv]], rate, n - 1)

\* [err, zcb]
zcb_price(r_0, n, u, d, fv) ==
  LET L == short_rate(r_0, n - 1, u, d)
  IN  IF L.err # "none" THEN [err |-> L.err, zcb |-> <<>>]
      ELSE [err |-> "none", zcb |-> zcb_backward(L.arr, n, fv)]

(* ------------------------------------------------------------------ *)
(* term_structure(r_0, n, u, d)                                         *)
(* ------------------------------------------------------------------ *)
RECURSIVE IPow(_, _)
IPow(b, k) == IF k = 0 THEN 1 ELSE b * IPow(b, k - 1)

RECURSIVE IRootFrom(_, _, _)
IRootFrom(m, k, r) == IF IPow(r, k) >= m THEN r ELSE IRootFrom(m, k, r + 1)

IsPower(m, k) == IPow(IRootFrom(m, k, 0), k) = m

\* x**(1/i) as numpy computes it (C pow): x itself for i = 1; nan for a negative
\* base, +inf for an infinite one; the exact root when it is rational, and else
\* the irrational <<num, den, i>> standing for (num/den)**(1/i)
PowInv(x, i) ==
  IF i = 1 \/ IsNaN(x) THEN x
  ELSE IF ~IsFinite(x) THEN PInf
  ELSE IF x[1] < 0 THEN NaN
  ELSE IF IsPower(x[1], i) /\ IsPower(x[2], i)
       THEN <<IRootFrom(x[1], i, 0), IRootFrom(x[2], i, 0)>>
  ELSE <<x[1], x[2], i>>

IsSurd(x) == Len(x) = 3

\* (100.0/zcb)**(1/i) - 1.0 ; the irrational <<num, den, i>> stands for (num/den)**(1/i) - 1
SpotRate(zcb, i) ==
  LET p == PowInv(RDiv(Hundred, zcb), i)
  IN  IF IsSurd(p) THEN p ELSE RSub(p, One)

TS_Init(r_0, n, u, d) ==
  [pc |-> "alloc", r_0 |-> r_0, n |-> n, u |-> u, d |-> d,
   zcb_price_arr |-> <<>>, spot_rates |-> <<>>, i |-> 0,
   upper |-> {}, bulk |-> {}, err |-> "none", ret |-> <<>>]

\* np.zeros(n+1) refuses a negative length
TS_alloc(st) ==
  IF st.n + 1 < 0 THEN Raise(st, "ValueError")
  ELSE [st EXCEPT !.zcb_price_arr = Zeros1(st.n + 1),
                  !.i = 1,
                  !.pc = IF st.n >= 1 THEN "zcb" ELSE "alloc2"]

TS_zcb(st) ==
  LET i == st.i
      Z == zcb_price_forward(i, st.r_0, st.u, st.d, Hundred)
  IN  IF Z.err # "none" THEN Raise(st, Z.err)
      ELSE [st EXCEPT !.zcb_price_arr[i] = Z.price,
                      !.upper = @ \cup Z.upper,
                      !.bulk = @ \cup Z.bulk,
                      !.i = i + 1,
                      !.pc = IF i + 1 <= st.n THEN "zcb" ELSE "alloc2"]

TS_alloc2(st) ==
  [st EXCEPT !.spot_rates = Zeros1(st.n + 1),
             !.i = 1,
             !.pc = IF st.n >= 1 THEN "spot" ELSE "return"]

TS_spot(st) ==
  LET i == st.i
  IN  [st EXCEPT !.spot_rates[i] = SpotRate(st.zcb_price_arr[i], i),
                 !.i = i + 1,
                 !.pc = IF i + 1 <= st.n THEN "spot" ELSE "return"]

\* mutant of TS_return: the whole array is returned, the unused entry 0 included
TS_return_NoSlice(st) ==
  [st EXCEPT !.ret = [k \in 1..Cardinality(DOMAIN st.spot_rates) |-> st.spot_rates[k - 1]],
             !.pc = "done"]

\* spot_rates[1:]
TS_return(st) ==
  [st EXCEPT !.ret = [k \in 1..(Cardinality(DOMAIN st.spot_rates) - 1) |-> st.spot_rates[k]],
             !.pc = "done"]

TS_Step(st) ==
  CASE st.pc = "alloc" -> TS_alloc(st)
    [] st.pc = "zcb" -> TS_zcb(st)
    [] st.pc = "alloc2" -> TS_alloc2(st)
    [] st.pc = "spot" -> TS_spot(st)
    [] st.pc = "return" -> TS_return(st)
    [] OTHER -> st

RECURSIVE TS_Run(_)
TS_Run(st) == Once({IF Finished(f) THEN f ELSE TS_Run(TS_Step(f)) : f \in {st}})

term_structure(r_0, n, u, d) == TS_Run(TS_Init(r_0, n, u, d))

(* ------------------------------------------------------------------ *)
(* swap_price(p, k, r_0, n, u, d)                                       *)
(* ------------------------------------------------------------------ *)
SW_Init(p, k, r_0, n, u, d) ==
  [pc |-> "lattice", p |-> p, k |-> k, r_0 |-> r_0, n |-> n, u |-> u, d |-> d,
   built |-> <<>>, rate_lattice |-> <<>>, swap_price |-> <<>>, i |-> 0, j |-> 0,
   dead |-> FALSE, upper |-> {}, bulk |-> {}, err |-> "none", ret |-> Zero]

\* rate_lattice = short_rate(r_0,n-1,u,d)
SW_lattice(st) ==
  LET L == short_rate(st.r_0, st.n - 1, st.u, st.d)
  IN  IF L.err # "none" THEN Raise(st, L.err)
      ELSE [st EXCEPT !.built = L.arr,
                      !.rate_lattice = L.arr,
                      !.upper = @ \cup L.upper,
                      !.pc = "scale"]

\* rate_lattice /= 100.0 (in place, on the array short_rate returned); np.zeros_like
SW_scale(st) ==
  [st EXCEPT !.rate_lattice = Scale100(st.rate_lattice),
             !.swap_price = Zeros2(st.n),
             !.bulk = @ \cup UpperOf("rate_lattice", AllIndices(st.rate_lattice)),
             !.i = 0,
             !.pc = "terminal"]

\* mutant of SwapTerminal: the last cash flow is not discounted
SwapTerminal_Undiscounted(rate, k) == RSub(rate, RDiv(k, Hundred))

\* (rate_lattice[n-1,i] - k/100.0)/(1+rate_lattice[n-1,i])
SwapTerminal(rate, k) == RDiv(RSub(rate, RDiv(k, Hundred)), RAdd(One, rate))

SW_afterTerminal(st) ==
  IF st.n - 2 >= 0 THEN [st EXCEPT !.pc = "backward", !.i = st.n - 2, !.j = 0]
  ELSE [st EXCEPT !.pc = "return"]

\* mutant of SW_terminal: swap_price is the rate lattice itself, not a new array
SW_terminal_Aliased(st) ==
  LET n == st.n
      i == st.i
      v == SwapTerminal(st.rate_lattice[n - 1][i], st.k)
      st1 == [st EXCEPT
                !.swap_price[n - 1][i] = v,
                !.rate_lattice[n - 1][i] = v,
                !.upper = @ \cup UpperOf("rate_lattice", {<<n - 1, i>>}),
                !.i = i + 1]
  IN  IF i + 1 <= n - 1 THEN st1 ELSE SW_afterTerminal(st1)

SW_terminal(st) ==
  LET n == st.n
      i == st.i
      st1 == [st EXCEPT
                !.swap_price[n - 1][i] = SwapTerminal(st.rate_lattice[n - 1][i], st.k),
                !.upper = @ \cup UpperOf("rate_lattice", {<<n - 1, i>>}),
                !.i = i + 1]
  IN  IF i + 1 <= n - 1 THEN st1 ELSE SW_afterTerminal(st1)

\* mutant of SwapNode: the fixed rate enters the coupon without the /100
SwapNode_RawFixed(rate, k, up, down) ==
  RMul(RDiv(One, RAdd(One, rate)),
       RAdd(RAdd(RMul(Half, up), RMul(RSub(One, Half), down)), RSub(rate, k)))

\* (1/(1+rate))*(q*up + (1-q)*down + (rate - k/100.0)), q = 0.5
SwapNode(rate, k, up, down) ==
  RMul(RDiv(One, RAdd(One, rate)),
       RAdd(RAdd(RMul(Half, up), RMul(RSub(One, Half), down)),
            RSub(rate, RDiv(k, Hundred))))

\* mutant of SW_nextNode: the inner loop runs over j = 0..i+1
SW_nextNode_OneColumnFurther(st) ==
  IF st.j < st.i + 1 THEN [st EXCEPT !.j = st.j + 1]
  ELSE IF st.i > 0 THEN [st EXCEPT !.i = st.i - 1, !.j = 0]
  ELSE [st EXCEPT !.pc = "return"]

SW_nextNode(st) ==
  IF st.j < st.i THEN [st EXCEPT !.j = st.j + 1]
  ELSE IF st.i > 0 THEN [st EXCEPT !.i = st.i - 1, !.j = 0]
  ELSE [st EXCEPT !.pc = "return"]

\* one node of the backward pass; the branch i < j stores '' (a ValueError on a float array)
SW_backward(st) ==
  LET i == st.i
      j == st.j
  IN  IF i < j THEN Raise([st EXCEPT !.dead = TRUE], "ValueError")
      ELSE SW_nextNode(
             [st EXCEPT
                !.swap_price[i][j] =
                   SwapNode(st.rate_lattice[i][j], st.k,
                            st.swap_price[i + 1][j + 1], st.swap_price[i + 1][j]),
                !.upper = @ \cup UpperOf("swap_price", {<<i + 1, j + 1>>, <<i + 1, j>>})
                            \cup UpperOf("rate_lattice", {<<i, j>>})])

\* return swap_price[0,0]*p
SW_return(st) == [st EXCEPT !.ret = RMul(st.swap_price[0][0], st.p), !.pc = "done"]

SW_Step(st) ==
  CASE st.pc = "lattice" -> SW_lattice(st)
    [] st.pc = "scale" -> SW_scale(st)
    [] st.pc = "terminal" -> SW_terminal(st)
    [] st.pc = "backward" -> SW_backward(st)
    [] st.pc = "return" -> SW_return(st)
    [] OTHER -> st

RECURSIVE SW_Run(_)
SW_Run(st) == Once({IF Finished(f) THEN f ELSE SW_Run(SW_Step(f)) : f \in {st}})

swap_price(p, k, r_0, n, u, d) == SW_Run(SW_Init(p, k, r_0, n, u, d))

\* the swaption notebook's swap_price: the same passes, returning the lattice
swap_price_lattice(p, k, r_0, n, u, d) ==
  LET F == SW_Run(SW_Init(p, k, r_0, n, u, d))
  IN  [err |-> F.err, arr |-> F.swap_price, upper |-> F.upper, bulk |-> F.bulk]

(* ------------------------------------------------------------------ *)
(* swaption_price(k, r_f, r_0, n_o, n, u, d)                            *)
(* ------------------------------------------------------------------ *)
SO_Init(k, r_f, r_0, n_o, n, u, d) ==
  [pc |-> "swap", k |-> k, r_f |-> r_f, r_0 |-> r_0, n_o |-> n_o, n |-> n,
   u |-> u, d |-> d,
   s_price_arr |-> <<>>, built |-> <<>>, rate_lattice |-> <<>>, swaption_price |-> <<>>,
   i |-> 0, j |-> 0, upper |-> {}, bulk |-> {}, err |-> "none", ret |-> Zero]

\* mutant of SO_swap: the swap lattice is built over n + 1 periods
SO_swap_OneMorePeriod(st) ==
  LET S == swap_price_lattice(One, st.r_f, st.r_0, st.n + 1, st.u, st.d)
  IN  IF S.err # "none" THEN Raise(st, S.err)
      ELSE [st EXCEPT !.s_price_arr = S.arr,
                      !.upper = @ \cup S.upper,
                      !.bulk = @ \cup S.bulk,
                      !.pc = "lattice"]

\* s_price_arr = swap_price(1.0,r_f,r_0,n,u,d)
SO_swap(st) ==
  LET S == swap_price_lattice(One, st.r_f, st.r_0, st.n, st.u, st.d)
  IN  IF S.err # "none" THEN Raise(st, S.err)
      ELSE [st EXCEPT !.s_price_arr = S.arr,
                      !.upper = @ \cup S.upper,
                      !.bulk = @ \cup S.bulk,
                      !.pc = "lattice"]

\* rate_lattice = short_rate(r_0,n_o,u,d)
SO_lattice(st) ==
  LET L == short_rate(st.r_0, st.n_o, st.u, st.d)
  IN  IF L.err # "none" THEN Raise(st, L.err)
      ELSE [st EXCEPT !.built = L.arr,
                      !.rate_lattice = L.arr,
                      !.upper = @ \cup L.upper,
                      !.pc = "scale"]

\* rate_lattice /= 100.0 (in place, on the array short_rate returned); np.zeros
SO_scale(st) ==
  [st EXCEPT !.rate_lattice = Scale100(st.rate_lattice),
             !.swaption_price = Zeros2(st.n_o + 1),
             !.bulk = @ \cup UpperOf("rate_lattice", AllIndices(st.rate_lattice)),
             !.i = 0,
             !.pc = "terminal"]

SO_afterTerminal(st) ==
  IF st.n_o - 1 >= 0 THEN [st EXCEPT !.pc = "backward", !.i = st.n_o - 1, !.j = 0]
  ELSE [st EXCEPT !.pc = "return"]

InBounds(arr, i, j) == i \in DOMAIN arr /\ j \in DOMAIN arr[i]

\* mutant of SO_terminal: the strike k is taken off the swap value in the payoff
SO_terminal_LessStrike(st) ==
  LET n_o == st.n_o
      i == st.i
  IN  IF ~InBounds(st.s_price_arr, n_o, i) THEN Raise(st, "IndexError")
      ELSE LET st1 == [st EXCEPT
                         !.swaption_price[n_o][i] =
                            PyMax2(RSub(st.s_price_arr[n_o][i], RDiv(st.k, Hundred)), Zero),
                         !.upper = @ \cup UpperOf("s_price_arr", {<<n_o, i>>}),
                         !.i = i + 1]
           IN  IF i + 1 <= n_o THEN st1 ELSE SO_afterTerminal(st1)

\* swaption_price[n_o,i] = max(s_price_arr[n_o,i],0)
SO_terminal(st) ==
  LET n_o == st.n_o
      i == st.i
  IN  IF ~InBounds(st.s_price_arr, n_o, i) THEN Raise(st, "IndexError")
      ELSE LET st1 == [st EXCEPT
                         !.swaption_price[n_o][i] = PyMax2(st.s_price_arr[n_o][i], Zero),
                         !.upper = @ \cup UpperOf("s_price_arr", {<<n_o, i>>}),
                         !.i = i + 1]
           IN  IF i + 1 <= n_o THEN st1 ELSE SO_afterTerminal(st1)

\* mutant of SwaptionNode: the period's rate is added as a coupon before discounting
SwaptionNode_WithCoupon(rate, up, down) ==
  RMul(RDiv(One, RAdd(One, rate)),
       RAdd(RAdd(RMul(Half, up), RMul(RSub(One, Half), down)), rate))

\* (1/(1+rate))*(q*up + (1-q)*down), q = 0.5
SwaptionNode(rate, up, down) ==
  RMul(RDiv(One, RAdd(One, rate)), RAdd(RMul(Half, up), RMul(RSub(One, Half), down)))

SO_backward(st) ==
  LET i == st.i
      j == st.j
  IN  SW_nextNode(
        [st EXCEPT
           !.swaption_price[i][j] =
              SwaptionNode(st.rate_lattice[i][j],
                           st.swaption_price[i + 1][j + 1], st.swaption_price[i + 1][j]),
           !.upper = @ \cup UpperOf("swaption_price", {<<i + 1, j + 1>>, <<i + 1, j>>})
                       \cup UpperOf("rate_lattice", {<<i, j>>})])

SO_return(st) == [st EXCEPT !.ret = st.swaption_price[0][0], !.pc = "done"]

SO_Step(st) ==
  CASE st.pc = "swap" -> SO_swap(st)
    [] st.pc = "lattice" -> SO_lattice(st)
    [] st.pc = "scale" -> SO_scale(st)
    [] st.pc = "terminal" -> SO_terminal(st)
    [] st.pc = "backward" -> SO_backward(st)
    [] st.pc = "return" -> SO_return(st)
    [] OTHER -> st

RECURSIVE SO_Run(_)
SO_Run(st) == Once({IF Finished(f) THEN f ELSE SO_Run(SO_Step(f)) : f \in {st}})

swaption_price(k, r_f, r_0, n_o, n, u, d) == SO_Run(SO_Init(k, r_f, r_0, n_o, n, u, d))

(* ------------------------------------------------------------------ *)
(* BDT calibration notebook                                             *)
(* Vectors are functions on 0..len-1.  The volatility b enters only     *)
(* through np.exp(b_in*j); it is carried as eb = exp(b), so that        *)
(* exp(b_in*j) = eb**j is exact.  a_glob is the module-level array a    *)
(* that bdt_short_rate reads for its size.                              *)
(* ------------------------------------------------------------------ *)
LenOf(v) == Cardinality(DOMAIN v)

\* rows 1..n-1: rate[i,j] = a_in[i]*np.exp(b_in*j) for j = 0..i
BdtRate(a_in, eb, n) ==
  [i \in 0..(n - 1) |-> [j \in 0..(n - 1) |->
      IF i = 0 THEN (IF j = 0 THEN a_in[0] ELSE Zero)
      ELSE IF j <= i THEN RMul(a_in[i], RPow(eb, j))
      ELSE Zero]]

\* [err, arr]; n = len(a) is taken from the module-level a, not from a_in
bdt_short_rate(a_in, eb, a_glob) ==
  LET n == LenOf(a_glob)
  IN  IF n = 0 \/ LenOf(a_in) = 0 \/ LenOf(a_in) < n
      THEN [err |-> "IndexError", arr |-> <<>>]
      ELSE [err |-> "none", arr |-> BdtRate(a_in, eb, n)]

RECURSIVE BdtForwardLoop(_, _, _, _)
BdtForwardLoop(e, s, i, n) ==
  IF i > n THEN e
  ELSE BdtForwardLoop([e EXCEPT ![i] = ForwardRow(e, s, i)], s, i + 1, n)

\* [err, e_prices]; s has len(a) rows, e_prices len(a_in)+1
bdt_elementary_prices(a_in, eb, a_glob) == Once({
  IF L.err # "none" THEN [err |-> L.err, e_prices |-> <<>>]
  ELSE IF n_periods > LenOf(a_glob) THEN [err |-> "IndexError", e_prices |-> <<>>]
  ELSE [err |-> "none",
        e_prices |-> BdtForwardLoop([Zeros2(n_periods + 1) EXCEPT ![0][0] = One],
                                    Scale100(L.arr), 1, n_periods)]
  : L \in {bdt_short_rate(a_in, eb, a_glob)}, n_periods \in {LenOf(a_in)}})

\* [err, arr]: fv*np.sum(e_prices,axis=1)
bdt_zcb_price_forward(a_in, eb, fv, a_glob) == Once({
  IF E.err # "none" THEN [err |-> E.err, arr |-> <<>>]
  ELSE [err |-> "none",
        arr |-> [k \in DOMAIN E.e_prices |-> RMul(fv, RowSum(E.e_prices, k))]]
  : E \in {bdt_elementary_prices(a_in, eb, a_glob)}})

IsIrrational(x) == Len(x) > 2

\* ((fv/zcb)**(1/i) - 1.0)*100.0 ; <<num, den, i, 100>> when the root is irrational
SpotRatePct(fv, zcb, i) == Once({
  IF IsIrrational(p) THEN <<p[1], p[2], p[3], 100>>
  ELSE RMul(RSub(p, One), Hundred)
  : p \in {PowInv(RDiv(fv, zcb), i)}})

\* [err, ret]: spot_rates[1:]*100.0, a vector on 0..len(a_in)-1
bdt_term_structure(a_in, eb, fv, a_glob) == Once({
  IF Z.err # "none" THEN [err |-> Z.err, ret |-> <<>>]
  ELSE [err |-> "none",
        ret |-> [k \in 0..(LenOf(a_in) - 1) |-> SpotRatePct(fv, Z.arr[k + 1], k + 1)]]
  : Z \in {bdt_zcb_price_forward(a_in, eb, fv, a_glob)}})

\* an irrational number whose value the model does not carry
Irrational == <<0, 1, 0>>

RECURSIVE SumSq(_, _, _)
SumSq(model, market, m) ==
  IF m < 0 THEN Zero
  ELSE LET rest == SumSq(model, market, m - 1)
           diff == RSub(model[m], market[m])
       IN  IF IsIrrational(rest) \/ IsIrrational(model[m]) THEN Irrational
           ELSE RAdd(rest, RMul(diff, diff))

\* [err, val]; b and spot_market are read from the module level
objective_function(a_in, eb, spot_market, a_glob) == Once({
  IF T.err # "none" THEN [err |-> T.err, val |-> Zero]
  ELSE IF LenOf(T.ret) # LenOf(spot_market) THEN [err |-> "ValueError", val |-> Zero]
  ELSE [err |-> "none", val |-> SumSq(T.ret, spot_market, LenOf(spot_market) - 1)]
  : T \in {bdt_term_structure(a_in, eb, Hundred, a_glob)}})

CAL_Init(spot_market, eb, a) ==
  [pc |-> "minimize", spot_market |-> spot_market, eb |-> eb, a |-> a,
   a_in |-> <<>>, sum_sq |-> <<>>, evals |-> 0,
   res |-> <<>>, a_fitted |-> <<>>, spot_fitted |-> <<>>, printed |-> <<>>,
   err |-> "none"]

\* inside sciop.minimize: the minimizer hands the trial vector x to objective_function
CAL_trial(st, x) == [st EXCEPT !.a_in = x, !.pc = "evaluate"]

\* mutant of CAL_evaluate: diff is formed in place in the market curve
CAL_evaluate_InPlaceDiff(st) == Once({
  IF F.err # "none" THEN Raise(st, F.err)
  ELSE [st EXCEPT !.spot_market = [k \in DOMAIN st.spot_market |->
                                     IF IsIrrational(T.ret[k]) THEN T.ret[k]
                                     ELSE RSub(T.ret[k], st.spot_market[k])],
                  !.sum_sq = F.val, !.evals = @ + 1, !.pc = "minimize"]
  : T \in {bdt_term_structure(st.a_in, st.eb, Hundred, st.a)},
    F \in {objective_function(st.a_in, st.eb, st.spot_market, st.a)}})

\* one evaluation objective_function(a_in): sum_sq is returned to the minimizer
CAL_evaluate(st) == Once({
  IF F.err # "none" THEN Raise(st, F.err)
  ELSE [st EXCEPT !.sum_sq = F.val, !.evals = @ + 1, !.pc = "minimize"]
  : F \in {objective_function(st.a_in, st.eb, st.spot_market, st.a)}})

\* res = sciop.minimize(objective_function, a, ...): the external minimizer ends at
\* some point x, converged (success) or not, and reports the objective there
CAL_minimize(st, x, success) == Once({
  IF F.err # "none" THEN Raise(st, F.err)
  ELSE [st EXCEPT !.res = [x |-> x, fun |-> F.val, success |-> success],
                  !.pc = "report"]
  : F \in {objective_function(x, st.eb, st.spot_market, st.a)}})

\* a_fitted = res.x ; spot_fitted = term_structure(a_fitted,b) ; both are printed
CAL_report(st) == Once({
  IF T.err # "none" THEN Raise(st, T.err)
  ELSE [st EXCEPT !.a_fitted = st.res.x,
                  !.spot_fitted = T.ret,
                  !.printed = <<T.ret, st.res.x>>,
                  !.pc = "done"]
  : T \in {bdt_term_structure(st.res.x, st.eb, Hundred, st.a)}})

(* ------------------------------------------------------------------ *)
(* A direct call of short_rate / stock_lattice                          *)
(* ------------------------------------------------------------------ *)
LAT_Init(initial, n, u, d) ==
  [pc |-> "call", initial |-> initial, n |-> n, u |-> u, d |-> d,
   arr |-> <<>>, upper |-> {}, err |-> "none"]

LAT_call(st) ==
  LET L == short_rate(st.initial, st.n, st.u, st.d)
  IN  IF L.err # "none" THEN Raise(st, L.err)
      ELSE [st EXCEPT !.arr = L.arr, !.upper = L.upper, !.pc = "done"]

(* ------------------------------------------------------------------ *)
(* Inputs                                                               *)
(* Rates are chosen so that no node rate is exactly -100%: every        *)
(* discount factor 1/(1+rate) of the rate lattices is defined.          *)
(* ------------------------------------------------------------------ *)
Idle == [pc |-> "idle"]

Fifty == <<50, 1>>
Five == <<5, 1>>

OptPeriods == 0..MaxN
OptRates == {Zero, One}
OptSpots == {Two}
OptStrikes == {One, Four}
UpFactors == {One, Two}
DownFactors == {Half, One}
PutCallTags == {"Call", "Put", "P"}
TypeTags == {"E", "A", "European"}

LatticePeriods == (-2)..MaxN
LatticeInitials == {Two, Hundred, <<-50, 1>>}
LatticeUps == {<<-1, 1>>, Zero, One, Three}
LatticeDowns == {Zero, Half, One}
RatePeriods == 0..MaxN
SwaptionExpiries == (-2)..MaxN
SwapPeriods == 0..(MaxN + 1)
RateInitials == {Zero, Hundred, <<-50, 1>>, <<-300, 1>>}
RateUps == {One, Three}
RateDowns == {Half, One}
FixedRates == {Zero, Fifty}
Notionals == {One, Hundred}

CalPeriods == 1..MaxPeriods
DriftValues == {Zero, <<300, 1>>}
MarketValues == {Hundred, <<300, 1>>}
ExpB == {One, Two}

Vectors(n, S) == [0..(n - 1) -> S]

InitOption ==
  /\ entry = "binomial_tree"
  /\ \E n \in OptPeriods, r_f \in OptRates, S_0 \in OptSpots, K \in OptStrikes,
        u \in UpFactors, d \in DownFactors, PutCall \in PutCallTags,
        Type \in TypeTags, np \in BOOLEAN :
        opt = BT_Init(n, r_f, S_0, K, u, d, PutCall, Type, np)
  /\ lat = Idle /\ ep = Idle /\ ts = Idle /\ sw = Idle /\ so = Idle /\ cal = Idle

InitLattice ==
  /\ entry = "short_rate"
  /\ \E initial \in LatticeInitials, n \in LatticePeriods,
        u \in LatticeUps, d \in LatticeDowns :
        lat = LAT_Init(initial, n, u, d)
  /\ opt = Idle /\ ep = Idle /\ ts = Idle /\ sw = Idle /\ so = Idle /\ cal = Idle

InitElementary ==
  /\ entry = "elementary_prices"
  /\ \E r_0 \in RateInitials, n \in RatePeriods, u \in RateUps, d \in RateDowns :
        ep = EP_Init(r_0, n, u, d)
  /\ opt = Idle /\ lat = Idle /\ ts = Idle /\ sw = Idle /\ so = Idle /\ cal = Idle

InitTermStructure ==
  /\ entry = "term_structure"
  /\ \E r_0 \in RateInitials, n \in RatePeriods, u \in RateUps, d \in RateDowns :
        ts = TS_Init(r_0, n, u, d)
  /\ opt = Idle /\ lat = Idle /\ ep = Idle /\ sw = Idle /\ so = Idle /\ cal = Idle

InitSwap ==
  /\ entry = "swap_price"
  /\ \E p \in Notionals, k \in FixedRates, r_0 \in RateInitials, n \in SwapPeriods,
        u \in RateUps, d \in RateDowns :
        sw = SW_Init(p, k, r_0, n, u, d)
  /\ opt = Idle /\ lat = Idle /\ ep = Idle /\ ts = Idle /\ so = Idle /\ cal = Idle

InitSwaption ==
  /\ entry = "swaption_price"
  /\ \E k \in FixedRates, r_f \in FixedRates, r_0 \in RateInitials, n_o \in SwaptionExpiries,
        n \in SwapPeriods, u \in RateUps, d \in RateDowns :
        so = SO_Init(k, r_f, r_0, n_o, n, u, d)
  /\ opt = Idle /\ lat = Idle /\ ep = Idle /\ ts = Idle /\ sw = Idle /\ cal = Idle

\* spot_market, b and a = 5.0*np.ones(n_periods) as the notebook's cells set them
InitCalibration ==
  /\ entry = "calibration"
  /\ \E n_periods \in CalPeriods, eb \in ExpB :
       \E spot_market \in Vectors(n_periods, MarketValues) :
          cal = CAL_Init(spot_market, eb, [i \in 0..(n_periods - 1) |-> Five])
  /\ opt = Idle /\ lat = Idle /\ ep = Idle /\ ts = Idle /\ sw = Idle /\ so = Idle

Init ==
  \/ InitOption
  \/ InitLattice
  \/ InitElementary
  \/ InitTermStructure
  \/ InitSwap
  \/ InitSwaption
  \/ InitCalibration

(* ------------------------------------------------------------------ *)
(* Actions: one per statement group of the running call                 *)
(* ------------------------------------------------------------------ *)
OptAt(p) == entry = "binomial_tree" /\ opt.pc = p
OptOnly == UNCHANGED <<entry, lat, ep, ts, sw, so, cal>>

BinomialTreeQ == OptAt("q") /\ opt' = BT_q(opt) /\ OptOnly

BinomialTreeLattice == OptAt("lattice") /\ opt' = BT_lattice(opt) /\ OptOnly

BinomialTreeTerminal == OptAt("terminal") /\ opt' = BT_terminal(opt) /\ OptOnly

BinomialTreeBackward == OptAt("backward") /\ opt' = BT_backward(opt) /\ OptOnly

BinomialTreeReturn == OptAt("return") /\ opt' = BT_return(opt) /\ OptOnly

ShortRateCall ==
  /\ entry = "short_rate" /\ lat.pc = "call"
  /\ lat' = LAT_call(lat)
  /\ UNCHANGED <<entry, opt, ep, ts, sw, so, cal>>

EpAt(p) == entry = "elementary_prices" /\ ep.pc = p
EpOnly == UNCHANGED <<entry, opt, lat, ts, sw, so, cal>>

ElementaryLattice == EpAt("lattice") /\ ep' = EP_lattice(ep) /\ EpOnly

ElementaryFirstLoop == EpAt("first") /\ ep' = EP_first(ep) /\ EpOnly

ElementaryMainLoop == EpAt("main") /\ ep' = EP_main(ep) /\ EpOnly

ElementaryReturn == EpAt("return") /\ ep' = EP_return(ep) /\ EpOnly

TsAt(p) == entry = "term_structure" /\ ts.pc = p
TsOnly == UNCHANGED <<entry, opt, lat, ep, sw, so, cal>>

TermStructureAlloc == TsAt("alloc") /\ ts' = TS_alloc(ts) /\ TsOnly

TermStructureZcb == TsAt("zcb") /\ ts' = TS_zcb(ts) /\ TsOnly

TermStructureAlloc2 == TsAt("alloc2") /\ ts' = TS_alloc2(ts) /\ TsOnly

TermStructureSpot == TsAt("spot") /\ ts' = TS_spot(ts) /\ TsOnly

TermStructureReturn == TsAt("return") /\ ts' = TS_return(ts) /\ TsOnly

SwAt(p) == entry = "swap_price" /\ sw.pc = p
SwOnly == UNCHANGED <<entry, opt, lat, ep, ts, so, cal>>

SwapLattice == SwAt("lattice") /\ sw' = SW_lattice(sw) /\ SwOnly

SwapScale == SwAt("scale") /\ sw' = SW_scale(sw) /\ SwOnly

SwapTerminalLoop == SwAt("terminal") /\ sw' = SW_terminal(sw) /\ SwOnly

SwapBackward == SwAt("backward") /\ sw' = SW_backward(sw) /\ SwOnly

SwapReturn == SwAt("return") /\ sw' = SW_return(sw) /\ SwOnly

SoAt(p) == entry = "swaption_price" /\ so.pc = p
SoOnly == UNCHANGED <<entry, opt, lat, ep, ts, sw, cal>>

SwaptionSwap == SoAt("swap") /\ so' = SO_swap(so) /\ SoOnly

SwaptionLattice == SoAt("lattice") /\ so' = SO_lattice(so) /\ SoOnly

SwaptionScale == SoAt("scale") /\ so' = SO_scale(so) /\ SoOnly

SwaptionTerminal == SoAt("terminal") /\ so' = SO_terminal(so) /\ SoOnly

SwaptionBackward == SoAt("backward") /\ so' = SO_backward(so) /\ SoOnly

SwaptionReturn == SoAt("return") /\ so' = SO_return(so) /\ SoOnly

CalAt(p) == entry = "calibration" /\ cal.pc = p
CalOnly == UNCHANGED <<entry, opt, lat, ep, ts, sw, so>>

CalibrationTrial ==
  /\ CalAt("minimize") /\ cal.evals < MaxEvals
  /\ \E x \in Vectors(LenOf(cal.a), DriftValues) \cup {cal.a} : cal' = CAL_trial(cal, x)
  /\ CalOnly

CalibrationEvaluate == CalAt("evaluate") /\ cal' = CAL_evaluate(cal) /\ CalOnly

CalibrationMinimize ==
  /\ CalAt("minimize")
  /\ \E x \in Vectors(LenOf(cal.a), DriftValues), success \in BOOLEAN :
        cal' = CAL_minimize(cal, x, success)
  /\ CalOnly

CalibrationReport == CalAt("report") /\ cal' = CAL_report(cal) /\ CalOnly

Next ==
  \/ BinomialTreeQ
  \/ BinomialTreeLattice
  \/ BinomialTreeTerminal
  \/ BinomialTreeBackward
  \/ BinomialTreeReturn
  \/ ShortRateCall
  \/ ElementaryLattice
  \/ ElementaryFirstLoop
  \/ ElementaryMainLoop
  \/ ElementaryReturn
  \/ TermStructureAlloc
  \/ TermStructureZcb
  \/ TermStructureAlloc2
  \/ TermStructureSpot
  \/ TermStructureReturn
  \/ SwapLattice
  \/ SwapScale
  \/ SwapTerminalLoop
  \/ SwapBackward
  \/ SwapReturn
  \/ SwaptionSwap
  \/ SwaptionLattice
  \/ SwaptionScale
  \/ SwaptionTerminal
  \/ SwaptionBackward
  \/ SwaptionReturn
  \/ CalibrationTrial
  \/ CalibrationEvaluate
  \/ CalibrationMinimize
  \/ CalibrationReport

Spec == Init /\ [][Next]_vars

(* ================================================================== *)
(* Claims                                                               *)
(* ================================================================== *)
OptDone == entry = "binomial_tree" /\ opt.pc = "done"

OptValidTags == opt.PutCall \in {"Call", "Put"} /\ opt.Type \in {"E", "A"}

\* the arguments the specification accepts: n >= 0, u > 0, d > 0, u # d
OptValidArgs ==
  opt.n >= 0 /\ RLt(Zero, opt.u) /\ RLt(Zero, opt.d) /\ opt.u # opt.d

\* the same call with exercise style 'E'
EuropeanTwin ==
  binomial_tree(opt.n, opt.r_f, opt.S_0, opt.K, opt.u, opt.d, opt.PutCall, "E", opt.np)

QIsProbability == RLe(Zero, opt.q) /\ RLe(opt.q, One)

\* C1 (as stated): for every accepted argument list the American price is at
\* least the European price of the same arguments, for 'Put' and for 'Call'.
C1_AmericanAtLeastEuropean ==
  (OptDone /\ OptValidArgs /\ opt.Type = "A" /\ opt.PutCall \in {"Call", "Put"})
    => (EuropeanTwin.pc = "done" /\ RLe(EuropeanTwin.ret, opt.ret))

\* C1 (amended): the same, for arguments whose risk-neutral probability
\* q = ((1+r_f)-d)/(u-d) lies in [0,1].
C1_AmericanAtLeastEuropeanWhenQInUnit ==
  (OptDone /\ OptValidArgs /\ QIsProbability
     /\ opt.Type = "A" /\ opt.PutCall \in {"Call", "Put"})
    => (EuropeanTwin.pc = "done" /\ RLe(EuropeanTwin.ret, opt.ret))

\* an American put has returned, q in [0,1], with a price strictly above the European one
C1_Witness ==
  /\ OptDone /\ OptValidArgs /\ QIsProbability
  /\ opt.Type = "A" /\ opt.PutCall = "Put" /\ opt.n = MaxN
  /\ RLt(EuropeanTwin.ret, opt.ret)

\* C5: a call with an unrecognised option-type or exercise-style tag ends in an
\* error; it returns no price.
C5_BadTagRaises ==
  (entry = "binomial_tree" /\ Finished(opt) /\ ~OptValidTags) => opt.pc = "raised"

\* C6: a call with u = d ends in an error raised before any price is produced;
\* it never returns (so never returns NaN or infinity).
C6_DegenerateRaises ==
  (entry = "binomial_tree" /\ Finished(opt) /\ opt.u = opt.d)
    => (opt.pc = "raised" /\ opt.option_price = <<>>)

(* ---- C2 ---------------------------------------------------------- *)
EpDone == entry = "elementary_prices" /\ ep.pc = "done"

\* sum over j = 0..k of e_prices[k,j]
BondSum(e, k) == SumTo(e[k], k)

\* C2: for every maturity k in 0..n the elementary prices of time k add up to the
\* root value of the unit zero-coupon bond maturing at k, computed by the
\* backward induction of zcb_price on the same rate lattice (and, for k >= 1, by
\* zcb_price itself); at k = 0 the sum is 1.
C2_ForwardSumIsBackwardBond ==
  EpDone =>
    /\ BondSum(ep.e_prices, 0) = One
    /\ \A k \in 0..ep.n :
         BondSum(ep.e_prices, k) = zcb_backward(ep.rate, k, One)[0][0]
    /\ \A k \in 1..ep.n :
         LET Z == zcb_price(ep.r_0, k, ep.u, ep.d, One)
         IN  Z.err = "none" /\ BondSum(ep.e_prices, k) = Z.zcb[0][0]

\* a forward pass over MaxN periods with a non-zero rate and up # down has returned
C2_Witness ==
  /\ EpDone /\ ep.n = MaxN /\ ep.r_0 # Zero /\ ep.u # ep.d
  /\ BondSum(ep.e_prices, MaxN) # One

(* ---- C3 ---------------------------------------------------------- *)
LatDone == entry = "short_rate" /\ lat.pc = "done"

\* (i,0) and (i,i) of `arr` are initial*d^i and initial*u^i
EdgesClosedForm(arr, initial, n, u, d) ==
  \A i \in 0..n :
    /\ arr[i][0] = RMul(initial, RPow(d, i))
    /\ arr[i][i] = RMul(initial, RPow(u, i))

\* C3: for n >= 0 and u, d > 0 the lattice of short_rate / stock_lattice has
\* value(i,0) = initial*d^i and value(i,i) = initial*u^i for every 0 <= i <= n.
C3_EdgesAreClosedForms ==
  /\ (LatDone /\ RLt(Zero, lat.u) /\ RLt(Zero, lat.d))
       => EdgesClosedForm(lat.arr, lat.initial, lat.n, lat.u, lat.d)
  /\ (entry = "binomial_tree" /\ opt.stock_price # <<>>
        /\ RLt(Zero, opt.u) /\ RLt(Zero, opt.d))
       => EdgesClosedForm(opt.stock_price, opt.S_0, opt.n, opt.u, opt.d)

C3_Witness ==
  /\ LatDone /\ lat.n = MaxN /\ lat.initial # Zero
  /\ RLt(Zero, lat.d) /\ RLt(lat.d, lat.u)

(* ---- C4 ---------------------------------------------------------- *)
UpperZero(arr) ==
  \A i \in DOMAIN arr : \A j \in DOMAIN arr[i] : j > i => arr[i][j] = Zero

\* every lattice of the running call has zeros above the diagonal
LatticesUpperZero ==
  /\ entry = "binomial_tree" => UpperZero(opt.stock_price) /\ UpperZero(opt.option_price)
  /\ entry = "short_rate" => UpperZero(lat.arr)
  /\ entry = "elementary_prices"
       => UpperZero(ep.rate) /\ UpperZero(ep.s) /\ UpperZero(ep.e_prices)
  /\ entry = "swap_price" => UpperZero(sw.rate_lattice) /\ UpperZero(sw.swap_price)
  /\ entry = "swaption_price"
       => UpperZero(so.s_price_arr) /\ UpperZero(so.rate_lattice)
          /\ UpperZero(so.swaption_price)

\* the element reads above the diagonal, and the whole-array reads above it
ElementReadsAbove ==
  CASE entry = "binomial_tree" -> opt.upper
    [] entry = "short_rate" -> lat.upper
    [] entry = "elementary_prices" -> ep.upper
    [] entry = "term_structure" -> ts.upper
    [] entry = "swap_price" -> sw.upper
    [] entry = "swaption_price" -> so.upper
    [] OTHER -> {}

BulkReadsAbove ==
  CASE entry = "elementary_prices" -> ep.bulk
    [] entry = "term_structure" -> ts.bulk
    [] entry = "swap_price" -> sw.bulk
    [] entry = "swaption_price" -> so.bulk
    [] OTHER -> {}

\* C4 (as stated): entries (i,j) with j > i stay zero and no operation reads
\* them, the row sums of the elementary prices included.
C4_UpperNeverRead ==
  LatticesUpperZero /\ ElementReadsAbove = {} /\ BulkReadsAbove = {}

\* C4 (amended): entries (i,j) with j > i stay zero and no element-indexed
\* access reads them; only whole-array operations (the /100 scaling, the row
\* sums) read them.
C4_UpperZeroAndNoElementRead == LatticesUpperZero /\ ElementReadsAbove = {}

\* term_structure has returned after summing rows whose upper entries it read
C4_Witness ==
  /\ entry = "term_structure" /\ ts.pc = "done" /\ ts.n = MaxN
  /\ \E k \in 0..(MaxN - 1) : <<"e_prices", k, MaxN>> \in ts.bulk
  /\ ts.upper = {}

C8_NonPositivePriceRaises ==
  (entry = "term_structure" /\ Finished(ts)
     /\ \E k \in 1..ts.n : RLe(ts.zcb_price_arr[k], Zero))
    => (ts.pc = "raised" /\ ts.ret = <<>>)

(* ---- C9 ---------------------------------------------------------- *)
\* C9: when the minimizer ends without converging, its parameter vector is not
\* used or reported as a fit.
C9_UnconvergedNotReported ==
  (entry = "calibration" /\ cal.res # <<>> /\ ~cal.res.success)
    => (cal.a_fitted = <<>> /\ cal.spot_fitted = <<>> /\ cal.printed = <<>>)

(* ---- C10 --------------------------------------------------------- *)
\* the rate at node (i,j) of the lattice from r_0 (a percentage), as a decimal
NodeRate(r_0, u, d, i, j) ==
  RDiv(RMul(r_0, RMul(RPow(u, j), RPow(d, i - j))), Hundred)

\* every node the backward pass has filled holds disc * (q*up + (1-q)*down)
OptionDiscountIs(disc) ==
  (OptDone /\ opt.Type = "E")
    => \A i \in 0..(opt.n - 1) : \A j \in 0..i :
         opt.option_price[i][j] =
           RMul(disc, RAdd(RMul(opt.q, opt.option_price[i + 1][j + 1]),
                           RMul(RSub(One, opt.q), opt.option_price[i + 1][j])))

SwapUsesPercent ==
  (entry = "swap_price" /\ sw.pc = "done")
    => /\ \A j \in 0..(sw.n - 1) :
            sw.swap_price[sw.n - 1][j] =
              LET r == NodeRate(sw.r_0, sw.u, sw.d, sw.n - 1, j)
              IN  RDiv(RSub(r, RDiv(sw.k, Hundred)), RAdd(One, r))
       /\ \A i \in 0..(sw.n - 2) : \A j \in 0..i :
            sw.swap_price[i][j] =
              LET r == NodeRate(sw.r_0, sw.u, sw.d, i, j)
              IN  RMul(RDiv(One, RAdd(One, r)),
                       RAdd(RAdd(RMul(Half, sw.swap_price[i + 1][j + 1]),
                                 RMul(Half, sw.swap_price[i + 1][j])),
                            RSub(r, RDiv(sw.k, Hundred))))

SwaptionUsesPercent ==
  (entry = "swaption_price" /\ so.pc = "done")
    => /\ so.s_price_arr = swap_price(One, so.r_f, so.r_0, so.n, so.u, so.d).swap_price
       /\ \A i \in 0..(so.n_o - 1) : \A j \in 0..i :
            so.swaption_price[i][j] =
              RMul(RDiv(One, RAdd(One, NodeRate(so.r_0, so.u, so.d, i, j))),
                   RAdd(RMul(Half, so.swaption_price[i + 1][j + 1]),
                        RMul(Half, so.swaption_price[i + 1][j])))

\* the one-period bond price is 100/(1 + r_0/100)
TermStructureUsesPercent ==
  (entry = "term_structure" /\ ts.pc = "done" /\ ts.n >= 1)
    => ts.zcb_price_arr[1] = RDiv(Hundred, RAdd(One, RDiv(ts.r_0, Hundred)))

\* C10 (as stated): every rate input, the option's r_f included, is a percentage
\* divided by 100 exactly once before it enters a discount factor 1/(1+r).
C10_EveryRateIsPercent ==
  /\ OptionDiscountIs(RDiv(One, RAdd(One, RDiv(opt.r_f, Hundred))))
  /\ SwapUsesPercent /\ SwaptionUsesPercent /\ TermStructureUsesPercent

\* C10 (amended): the swap/swaption fixed rate and initial short rate and the
\* term-structure initial rate are percentages divided by 100 exactly once;
\* the option's r_f is a decimal and enters 1/(1+r_f) undivided.
C10_RatesPercentOptionDecimal ==
  /\ OptionDiscountIs(RDiv(One, RAdd(One, opt.r_f)))
  /\ SwapUsesPercent /\ SwaptionUsesPercent /\ TermStructureUsesPercent

\* a swaption over MaxN periods on a longer swap, with non-zero rates, has returned
C10_Witness ==
  /\ entry = "swaption_price" /\ so.pc = "done" /\ so.n_o = MaxN
  /\ so.r_0 # Zero /\ so.r_f # Zero /\ so.ret # Zero

(* ---- C11 --------------------------------------------------------- *)
TsDone == entry = "term_structure" /\ ts.pc = "done"

\* r is the rate whose k-fold compounding turns the bond price zcb into 100
IsSpotRateOf(r, zcb, k) == RMul(RPow(RAdd(One, r), k), zcb) = Hundred

\* the returned values are one per maturity 1..n, each the spot rate of its bond
ReturnsSpotPerMaturity ==
  /\ DOMAIN ts.ret = 1..ts.n
  /\ \A k \in 1..ts.n :
       (~IsSurd(ts.ret[k]) /\ IsFinite(ts.ret[k])
          /\ IsFinite(ts.zcb_price_arr[k]) /\ RLt(Zero, ts.zcb_price_arr[k]))
         => IsSpotRateOf(ts.ret[k], ts.zcb_price_arr[k], k)

\* C11 (as stated): term_structure returns n values, the k-th the spot rate of
\* maturity k in percent; the maturity-1 value equals the initial rate in percent.
C11_SpotRatesInPercent ==
  TsDone => /\ DOMAIN ts.ret = 1..ts.n
            /\ ts.n >= 1 => ts.ret[1] = ts.r_0

\* C11 (amended): term_structure returns n values, the k-th the spot rate of
\* maturity k as a decimal fraction; the maturity-1 value is the initial rate / 100.
C11_SpotRatesAreDecimals ==
  TsDone => /\ ReturnsSpotPerMaturity
            /\ ts.n >= 1 => ts.ret[1] = RDiv(ts.r_0, Hundred)

\* a term structure over MaxN periods from a 100% initial rate has been returned
C11_Witness ==
  TsDone /\ ts.n = MaxN /\ ts.r_0 = Hundred /\ ts.ret[1] = One /\ ts.u # ts.d

(* ---- C12 --------------------------------------------------------- *)
\* the lattice short_rate / stock_lattice returned to the running call: <<>> until then
BuiltLattice ==
  CASE entry = "binomial_tree" -> opt.stock_price
    [] entry = "elementary_prices" -> ep.rate
    [] entry = "swap_price" -> sw.rate_lattice
    [] entry = "swaption_price" -> so.rate_lattice
    [] OTHER -> <<>>

\* the running call is at its statement rate_lattice /= 100.0
AtScale ==
  \/ entry = "swap_price" /\ sw.pc = "scale"
  \/ entry = "swaption_price" /\ so.pc = "scale"

\* C12 (as stated): once short_rate / stock_lattice has returned a lattice, no
\* later step of the call that built it changes an entry of it.
C12_LatticeNeverChanges ==
  [][BuiltLattice # <<>> => BuiltLattice' = BuiltLattice]_vars

\* C12 (amended): the only later step that changes the lattice is the in-place
\* rate_lattice /= 100.0 of swap_price and swaption_price, which divides every
\* entry by 100; no other step changes an entry.
C12_LatticeChangesOnlyByScaling ==
  [][BuiltLattice # <<>> =>
       IF AtScale THEN BuiltLattice' = Scale100(BuiltLattice)
       ELSE BuiltLattice' = BuiltLattice]_vars

\* a swap over MaxN + 1 periods has returned; its lattice is the built one over 100
C12_Witness ==
  /\ entry = "swap_price" /\ sw.pc = "done" /\ sw.n = MaxN + 1
  /\ sw.rate_lattice = Scale100(sw.built) /\ sw.rate_lattice # sw.built

(* ---- C13 --------------------------------------------------------- *)
\* the minimizer has evaluated the objective at res.x
CalEvaluated == entry = "calibration" /\ cal.res # <<>>

\* the values the module-level names a, b (as exp(b)) and spot_market may hold
ModuleLevelA == UNION {Vectors(m, DriftValues) : m \in CalPeriods}
ModuleLevelMarket == Vectors(LenOf(cal.spot_market), MarketValues)

\* C13: the BDT lattice and the objective function give, for the same explicit
\* arguments, the same result whatever the module-level variables hold.
C13_ResultDependsOnArgumentsOnly ==
  CalEvaluated =>
    /\ \A g \in ModuleLevelA :
         bdt_short_rate(cal.res.x, cal.eb, g) = bdt_short_rate(cal.res.x, cal.eb, cal.a)
    /\ \A m \in ModuleLevelMarket, e \in ExpB :
         objective_function(cal.res.x, e, m, cal.a).val = cal.res.fun

(* ---- C14 --------------------------------------------------------- *)
\* C14: an evaluation of the objective function leaves the trial vector a_in and
\* the market curve spot_market as they were.
C14_EvaluationKeepsInputs ==
  [][(entry = "calibration" /\ cal.pc = "evaluate")
       => (cal'.a_in = cal.a_in /\ cal'.spot_market = cal.spot_market)]_vars

\* the objective has been evaluated MaxEvals times, last at a point away from the
\* initial guess, and returned a positive sum of squares
C14_Witness ==
  /\ entry = "calibration" /\ cal.pc = "minimize" /\ cal.evals = MaxEvals
  /\ cal.a_in # cal.a /\ LenOf(cal.a_in) = MaxPeriods
  /\ cal.sum_sq # Zero /\ cal.err = "none"

(* ---- C15 --------------------------------------------------------- *)
\* the European put of the same (n, r_f, S_0, K, u, d)
EuropeanPutTwin ==
  binomial_tree(opt.n, opt.r_f, opt.S_0, opt.K, opt.u, opt.d, "Put", "E", opt.np)

\* S_0 - K/(1+r_f)^n
ParityGap == RSub(opt.S_0, RDiv(opt.K, RPow(RAdd(One, opt.r_f), opt.n)))

\* C15: for a European call and the European put of the same arguments (n >= 0,
\* u # d), C - P = S_0 - K/(1+r_f)^n.
C15_PutCallParity ==
  (OptDone /\ opt.Type = "E" /\ opt.PutCall = "Call" /\ opt.u # opt.d)
    => (EuropeanPutTwin.pc = "done" /\ RSub(opt.ret, EuropeanPutTwin.ret) = ParityGap)

\* a European call over MaxN periods has returned; call and put are both worth
\* something and the rate is not zero
C15_Witness ==
  /\ OptDone /\ opt.Type = "E" /\ opt.PutCall = "Call" /\ opt.n = MaxN
  /\ opt.u # opt.d /\ opt.r_f # Zero
  /\ RLt(Zero, opt.ret) /\ RLt(Zero, EuropeanPutTwin.ret)

(* ---- C16 --------------------------------------------------------- *)
\* term_structure has returned for a flat lattice: u = d = 1
TsFlatDone == TsDone /\ ts.u = One /\ ts.d = One

\* the constant rate of the flat lattice as a decimal
FlatRate == RDiv(ts.r_0, Hundred)

RatesNonNegative ==
  \A i \in 0..ep.n : \A j \in 0..i : RLe(Zero, ep.rate[i][j])

\* C17: when every rate of the lattice is non-negative, the bond price
\* sum_j e[k,j] does not increase with the maturity k, 0 <= k < n.
C17_BondPriceNonIncreasing ==
  (EpDone /\ RatesNonNegative)
    => \A k \in 0..(ep.n - 1) :
         RLe(BondSum(ep.e_prices, k + 1), BondSum(ep.e_prices, k))

\* a forward pass over MaxN periods with positive, unequal rates has returned and
\* the bond price has fallen at every step
C17_Witness ==
  /\ EpDone /\ RatesNonNegative /\ ep.n = MaxN /\ RLt(Zero, ep.r_0) /\ ep.u # ep.d
  /\ \A k \in 0..(MaxN - 1) :
       RLt(BondSum(ep.e_prices, k + 1), BondSum(ep.e_prices, k))

(* ---- C18 --------------------------------------------------------- *)
\* every interior node (i,j), 1 <= j <= i-1, is the up-move of (i-1,j-1), the
\* down-move of (i-1,j), and initial*u^j*d^(i-j)
Recombines(arr, initial, n, u, d) ==
  \A i \in 1..n : \A j \in 1..(i - 1) :
    /\ arr[i][j] = RMul(arr[i - 1][j - 1], u)
    /\ arr[i][j] = RMul(arr[i - 1][j], d)
    /\ arr[i][j] = RMul(initial, RMul(RPow(u, j), RPow(d, i - j)))

\* C18: the lattice recombines: the stored value(i,j) = value(i-1,j-1)*u equals
\* value(i-1,j)*d, and is initial*u^j*d^(i-j).
C18_LatticeRecombines ==
  /\ LatDone => Recombines(lat.arr, lat.initial, lat.n, lat.u, lat.d)
  /\ (entry = "binomial_tree" /\ opt.stock_price # <<>>)
       => Recombines(opt.stock_price, opt.S_0, opt.n, opt.u, opt.d)

\* a lattice with an interior node, built from non-zero unequal factors
C18_Witness ==
  /\ LatDone /\ lat.n = MaxN /\ MaxN >= 2 /\ lat.initial # Zero
  /\ lat.u # lat.d /\ lat.u # Zero /\ lat.d # Zero
  /\ lat.arr[MaxN][1] # lat.arr[MaxN][0] /\ lat.arr[MaxN][1] # lat.arr[MaxN][MaxN]

(* ---- C20 --------------------------------------------------------- *)
\* the backward pass of the running call: its position, its value lattice V and
\* the first row it visits
Backward ==
  CASE entry = "binomial_tree" ->
         [pc |-> opt.pc, i |-> opt.i, j |-> opt.j, V |-> opt.option_price, top |-> opt.n - 1]
    [] entry = "swap_price" ->
         [pc |-> sw.pc, i |-> sw.i, j |-> sw.j, V |-> sw.swap_price, top |-> sw.n - 2]
    [] entry = "swaption_price" ->
         [pc |-> so.pc, i |-> so.i, j |-> so.j, V |-> so.swaption_price, top |-> so.n_o - 1]
    [] OTHER -> [pc |-> "none", i |-> 0, j |-> 0, V |-> <<>>, top |-> 0]

\* a step of the pass: it starts at (top, 0); from (i,j) it goes to (i,j+1), or
\* after (i,i) to (i-1,0); it ends only after (0,0); and it changes no entry of V
\* other than (i,j), so the successors of a node are final when it is assigned
BackwardStep ==
  /\ (Backward.pc # "backward" /\ Backward'.pc = "backward")
       => (Backward'.i = Backward.top /\ Backward'.j = 0)
  /\ Backward.pc = "backward" =>
       /\ Backward.j <= Backward.i
       /\ Backward'.pc = "backward" =>
            IF Backward.j < Backward.i
            THEN Backward'.i = Backward.i /\ Backward'.j = Backward.j + 1
            ELSE Backward'.i = Backward.i - 1 /\ Backward'.j = 0
       /\ Backward'.pc # "backward" =>
            (Backward'.pc = "return" /\ Backward.i = 0 /\ Backward.j = 0)
       /\ \A a \in DOMAIN Backward.V : \A b \in DOMAIN Backward.V[a] :
            <<a, b>> # <<Backward.i, Backward.j>> => Backward'.V[a][b] = Backward.V[a][b]

\* what binomial_tree and swaption_price return is the value at the root
OptionAndSwaptionReturnRoot ==
  /\ OptDone => opt.ret = opt.option_price[0][0]
  /\ (entry = "swaption_price" /\ so.pc = "done") => so.ret = so.swaption_price[0][0]

SwapDone == entry = "swap_price" /\ sw.pc = "done"

\* C20 (as stated), its last part: the price each of the three returns is the
\* value at the root (0,0).
C20_ReturnsRootValue ==
  OptionAndSwaptionReturnRoot /\ (SwapDone => sw.ret = sw.swap_price[0][0])

\* C20 (amended): rows are visited in decreasing order and columns 0..i within a
\* row, each node once and after its successors; binomial_tree and swaption_price
\* return the root value, swap_price the root value times the notional p.
C20_BackwardOrderAndReturn ==
  /\ [][BackwardStep]_vars
  /\ [](OptionAndSwaptionReturnRoot
        /\ (SwapDone => sw.ret = RMul(sw.swap_price[0][0], sw.p)))

\* a swap on a notional of 100 has been priced through a backward pass of MaxN rows
C20_Witness ==
  /\ SwapDone /\ sw.n = MaxN + 1 /\ sw.p = Hundred
  /\ sw.swap_price[0][0] # Zero /\ sw.ret # sw.swap_price[0][0]

(* ---- C21 ---- *)
\* the larger of two numbers, neither of them NaN
Larger(x, y) == IF RLt(x, y) THEN y ELSE x

\* the non-terminal nodes of binomial_tree's valuation lattice assigned so far
OptAssigned ==
  IF entry # "binomial_tree" \/ opt.Type \notin {"E", "A"} THEN {}
  ELSE IF opt.pc = "backward"
  THEN {p \in (0..(opt.n - 1)) \X (0..(opt.n - 1)) :
          p[2] <= p[1] /\ (p[1] > opt.i \/ (p[1] = opt.i /\ p[2] < opt.j))}
  ELSE IF opt.pc \in {"return", "done"}
  THEN {p \in (0..(opt.n - 1)) \X (0..(opt.n - 1)) : p[2] <= p[1]}
  ELSE {}

\* (1/(1+r_f)) * (q*V[i+1,j+1] + (1-q)*V[i+1,j]) from the lattice as it stands
OptContinuationAt(i, j) ==
  RMul(RDiv(One, RAdd(One, opt.r_f)),
       RAdd(RMul(opt.q, opt.option_price[i + 1][j + 1]),
            RMul(RSub(One, opt.q), opt.option_price[i + 1][j])))

\* max(0, S-K) for a call, max(0, K-S) for a put, S the stock lattice value at (i,j)
OptIntrinsicAt(i, j) ==
  IF opt.PutCall = "Call" THEN Larger(Zero, RSub(opt.stock_price[i][j], opt.K))
  ELSE Larger(Zero, RSub(opt.K, opt.stock_price[i][j]))

\* C21: in binomial_tree every assigned non-terminal node of Type 'E' holds the
\* continuation value (1/(1+r_f))*(q*V[i+1,j+1] + (1-q)*V[i+1,j]) alone, and
\* every assigned non-terminal node of Type 'A', for a call and for a put, holds
\* the larger of that continuation value (a number) and the intrinsic value.
C21_NodeIsContinuationOrMaxWithIntrinsic ==
  \A p \in OptAssigned :
    \E cont \in {OptContinuationAt(p[1], p[2])} :
      /\ opt.Type = "E" => opt.option_price[p[1]][p[2]] = cont
      /\ (opt.Type = "A" /\ opt.PutCall \in {"Call", "Put"} /\ ~IsNaN(cont))
           => opt.option_price[p[1]][p[2]] = Larger(cont, OptIntrinsicAt(p[1], p[2]))

\* an American put over MaxN periods has returned; at one of its nodes early
\* exercise is worth more than a positive continuation value
C21_Witness ==
  /\ OptDone /\ opt.Type = "A" /\ opt.PutCall = "Put" /\ opt.n = MaxN
  /\ \E p \in OptAssigned :
       /\ RLt(Zero, OptContinuationAt(p[1], p[2]))
       /\ RLt(OptContinuationAt(p[1], p[2]), OptIntrinsicAt(p[1], p[2]))

(* ---- C22 ---- *)
\* C22: swap_price for a swap of length n >= 1 returns; its terminal column
\* (time n-1) holds (rate - fixed)/(1 + rate) for j = 0..n-1, every earlier node
\* holds (1/(1+rate)) * (0.5*V[i+1,j+1] + 0.5*V[i+1,j] + (rate - fixed)), rate and
\* fixed being the percent inputs divided by 100, and the price returned is the
\* notional times V[0,0].
C22_SwapTerminalCouponAndNotional ==
  /\ (entry = "swap_price" /\ Finished(sw) /\ sw.n >= 1) => sw.pc = "done"
  /\ SwapUsesPercent
  /\ (SwapDone /\ sw.n >= 1) => sw.ret = RMul(sw.p, sw.swap_price[0][0])

\* a swap of MaxN + 1 periods at a fixed rate of 50% on a notional of 100 has been
\* priced from a non-zero initial rate, and its root value differs from the
\* undiscounted net cash flow
C22_Witness ==
  /\ SwapDone /\ sw.n = MaxN + 1 /\ sw.p = Hundred /\ sw.k = Fifty /\ sw.r_0 # Zero
  /\ sw.u # sw.d
  /\ sw.ret # Zero
  /\ sw.swap_price[MaxN][0] # sw.swap_price[MaxN][MaxN]

(* ---- C23 ---- *)
SoDone == entry = "swaption_price" /\ so.pc = "done"

\* S is the value lattice of a swap of length n on a notional of 1 at the fixed
\* rate `fixed` (a percentage), over the lattice from r_0 with factors u and d
IsUnitSwapLattice(S, fixed, r_0, n, u, d) ==
  /\ \A j \in 0..(n - 1) :
       \E r \in {NodeRate(r_0, u, d, n - 1, j)} :
          S[n - 1][j] = RDiv(RSub(r, RDiv(fixed, Hundred)), RAdd(One, r))
  /\ \A i \in 0..(n - 2) : \A j \in 0..i :
       \E r \in {NodeRate(r_0, u, d, i, j)} :
          S[i][j] = RMul(RDiv(One, RAdd(One, r)),
                         RAdd(RAdd(RMul(Half, S[i + 1][j + 1]), RMul(Half, S[i + 1][j])),
                              RSub(r, RDiv(fixed, Hundred))))

\* C23: when swaption_price with expiry n_o on a swap of length n has returned,
\* S is the unit-notional swap value lattice over the horizon n, the terminal
\* column of V is max(0, S[n_o,j]) for j = 0..n_o, every earlier node is
\* (1/(1+rate)) * (0.5*V[i+1,j+1] + 0.5*V[i+1,j]) with no coupon term, and the
\* value returned is V[0,0].
C23_SwaptionTerminalAndDiscounting ==
  SoDone =>
    /\ IsUnitSwapLattice(so.s_price_arr, so.r_f, so.r_0, so.n, so.u, so.d)
    /\ \A j \in 0..so.n_o :
         so.swaption_price[so.n_o][j] = Larger(Zero, so.s_price_arr[so.n_o][j])
    /\ \A i \in 0..(so.n_o - 1) : \A j \in 0..i :
         so.swaption_price[i][j] =
           RMul(RDiv(One, RAdd(One, NodeRate(so.r_0, so.u, so.d, i, j))),
                RAdd(RMul(Half, so.swaption_price[i + 1][j + 1]),
                     RMul(Half, so.swaption_price[i + 1][j])))
    /\ so.ret = so.swaption_price[0][0]

\* a swaption expiring after MaxN periods on a swap of MaxN + 1 periods has
\* returned a positive price; at expiry the swap is worth less than 0 at one node
\* and more than 0 at another
C23_Witness ==
  /\ SoDone /\ so.n_o = MaxN /\ so.n = MaxN + 1 /\ so.r_0 # Zero
  /\ RLt(Zero, so.ret)
  /\ \E j \in 0..so.n_o : RLt(so.s_price_arr[so.n_o][j], Zero)
  /\ \E j \in 0..so.n_o : RLt(Zero, so.s_price_arr[so.n_o][j])

(* ---- C24 ---- *)
\* x/(2(1+s))
HalfOfDiscounted(x, s) == RDiv(x, RMul(Two, RAdd(One, s)))

\* e[0,0] = 1 and rows 1..n of e follow the forward equations over the rates s
ForwardEquations(e, s, n) ==
  /\ e[0][0] = One
  /\ \A i \in 1..n :
       /\ e[i][0] = HalfOfDiscounted(e[i - 1][0], s[i - 1][0])
       /\ e[i][i] = HalfOfDiscounted(e[i - 1][i - 1], s[i - 1][i - 1])
       /\ \A j \in 1..(i - 1) :
            e[i][j] = RAdd(HalfOfDiscounted(e[i - 1][j - 1], s[i - 1][j - 1]),
                           HalfOfDiscounted(e[i - 1][j], s[i - 1][j]))

\* the objective has been evaluated at the trial vector a_in without an error
CalTrialEvaluated ==
  entry = "calibration" /\ cal.pc = "minimize" /\ cal.evals > 0 /\ cal.err = "none"

C25_EmptyStringBranchNeverTaken ==
  entry = "swap_price" =>
    /\ ~sw.dead
    /\ sw.err # "ValueError"
    /\ sw.pc = "backward" => sw.j <= sw.i

\* the backward pass of a swap of MaxN + 1 periods is at the last node of a row
\* that has more than one node
C25_Witness ==
  /\ entry = "swap_price" /\ sw.pc = "backward" /\ sw.n = MaxN + 1
  /\ sw.i >= 1 /\ sw.j = sw.i

(* ---- C26 ---- *)
\* the same call of swaption_price with the strike k2 in place of k
StrikeTwin(k2) == swaption_price(k2, so.r_f, so.r_0, so.n_o, so.n, so.u, so.d)

SoFinished == entry = "swaption_price" /\ Finished(so)

ExpiryInRange == 0 <= so.n_o /\ so.n_o <= so.n - 1

\* C27 (as stated): swaption_price makes an out-of-bounds array access exactly
\* when n_o lies outside 0..n-1.
C27_OutOfBoundsExactlyOutsideRange ==
  SoFinished => (so.err = "IndexError" <=> ~ExpiryInRange)

\* C27 (amended): swaption_price returns exactly when 0 <= n_o <= n-1.  For
\* n_o >= n >= 1 the swap lattice has n rows and the first terminal read
\* S[n_o,0] is out of bounds; for n = 0 (with n_o >= 0) and for n_o = -1 (with
\* n >= 1) the store into an empty rate lattice is out of bounds; for n_o <= -2
\* (with n >= 1) no access is out of bounds and the call fails in np.zeros.
C27_ReturnsExactlyWhenExpiryInRange ==
  SoFinished =>
    /\ so.pc = "done" <=> ExpiryInRange
    /\ (so.n_o >= 0 /\ so.n_o >= so.n) => so.err = "IndexError"
    /\ (so.n >= 1 /\ so.n_o >= so.n)
         => (LenOf(so.s_price_arr) = so.n /\ so.swaption_price # <<>> /\ so.i = 0)
    /\ (so.n >= 1 /\ so.n_o = -1) => so.err = "IndexError"
    /\ (so.n >= 1 /\ so.n_o <= -2) => so.err = "ValueError"

\* a swaption expiring at n_o = n = MaxN has failed at the first read of the
\* terminal column, the swap lattice holding MaxN rows
C27_Witness ==
  /\ SoFinished /\ so.n_o = MaxN /\ so.n = MaxN
  /\ so.pc = "raised" /\ so.err = "IndexError"
  /\ LenOf(so.s_price_arr) = MaxN /\ so.i = 0

(* ---- C28 ---- *)
\* binomial_tree has allocated its valuation lattice
OptHasLattice ==
  entry = "binomial_tree" /\ opt.pc \in {"terminal", "backward", "return", "done"}

\* the nodes (i,j), 0 <= j <= i <= n
OptNodes == {p \in (0..opt.n) \X (0..opt.n) : p[2] <= p[1]}

\* d <= 1 + r_f <= u and u # d
RateBetweenFactors ==
  /\ RLe(opt.d, RAdd(One, opt.r_f)) /\ RLe(RAdd(One, opt.r_f), opt.u)
  /\ opt.u # opt.d

ExerciseValueAt(i, j) ==
  IF opt.PutCall = "Call" THEN RSub(opt.stock_price[i][j], opt.K)
  ELSE RSub(opt.K, opt.stock_price[i][j])

\* C29: for an American call or put priced by binomial_tree with u # d (u, d > 0),
\* once the call has returned every node (i,j), 0 <= j <= i <= n, of the valuation
\* lattice holds a value >= 0 and >= the immediate exercise value at that node,
\* whether or not q lies in [0,1].
C29_AmericanNodesAtLeastExercise ==
  (OptDone /\ OptValidArgs /\ opt.Type = "A" /\ opt.PutCall \in {"Call", "Put"})
    => \A p \in OptNodes :
         /\ RLe(Zero, opt.option_price[p[1]][p[2]])
         /\ RLe(ExerciseValueAt(p[1], p[2]), opt.option_price[p[1]][p[2]])

\* an American put over MaxN periods with q outside [0,1] has returned; at its
\* root the continuation value is below the exercise value
C29_Witness ==
  /\ OptDone /\ OptValidArgs /\ opt.Type = "A" /\ opt.PutCall = "Put" /\ opt.n = MaxN
  /\ ~QIsProbability
  /\ RLt(OptContinuationAt(0, 0), ExerciseValueAt(0, 0))
  /\ RLt(Zero, ExerciseValueAt(0, 0))

(* ---- C30 ---- *)
\* term_structure has filled its array of zero-coupon bond prices
TsHasBondPrices ==
  entry = "term_structure" /\ ts.pc \in {"alloc2", "spot", "return", "done"}

\* C30: for all k <= n, row k of elementary_prices(r_0, k, u, d) equals row k
\* (entries j = 0..k) of elementary_prices(r_0, n, u, d); and the zero-coupon
\* bond prices term_structure gets by rebuilding the elementary prices for each
\* maturity k = 1..n are those of a single pass over the n-period lattice.
C30_ForwardPassPrefixConsistent ==
  /\ EpDone =>
       \A k \in 0..ep.n : \A j \in 0..k :
          elementary_prices(ep.r_0, k, ep.u, ep.d).e_prices[k][j] = ep.e_prices[k][j]
  /\ TsHasBondPrices =>
       \A k \in 1..ts.n :
          ts.zcb_price_arr[k] =
            RMul(Hundred,
                 BondSum(elementary_prices(ts.r_0, ts.n, ts.u, ts.d).e_prices, k))

\* term_structure over MaxN periods, from a non-zero initial rate with u # d, has
\* returned; its bond prices for maturities 1 and MaxN differ
C30_Witness ==
  /\ TsDone /\ ts.n = MaxN /\ ts.r_0 # Zero /\ ts.u # ts.d
  /\ ts.zcb_price_arr[1] # ts.zcb_price_arr[MaxN]
  /\ ts.zcb_price_arr[1] # Hundred

====
